---- MODULE Spec2Model ----
(***************************************************************************)
(* Model of package tmplutil (latest iteration, src/unnamed/part_000 lines *)
(* 1-316): the lazily compiled template tree kept in an atomic.Value, and  *)
(* the Execute pipeline with the render-failure hook and the Markdown      *)
(* post-processing.                                                        *)
(*                                                                         *)
(* Each goroutine is a process with a call stack of frames; one frame is   *)
(* one call of Load, Preload or Execute.  A nested frame is an Execute     *)
(* made by the OnRenderFail callback.  Steps are split at the atomic       *)
(* operations on tmpler.tmpl (Load, CompareAndSwap, Store).                *)
(*                                                                         *)
(* The setup calls (Register, Preregister, Func, Subtemplate, Override)    *)
(* are single steps of the one goroutine that configures the Templater,    *)
(* and the filesystem adapters of src/fs.go are the operator Open over a   *)
(* filesystem given as a record of its layers.                             *)
(***************************************************************************)
EXTENDS Integers, Sequences, FiniteSets, TLC

\* ---------------------------------------------------------------- bounds
NumProcs == 2          \* goroutines calling into the Templater concurrently
MaxDepth == 2          \* frames per goroutine: a call and the hook's renders
MaxOverrides == 2      \* calls of Override on one Templater

Procs == 1..NumProcs

\* the contents a source file can have: as first read, and after an edit
Versions == {1, 2}

VARIABLES
    DebugMode,     \* package variable DebugMode, read from TMPL_DEBUG at start
    OnRenderFail,  \* Templater.OnRenderFail # nil
    Markdown,      \* Templater.Markdown # nil
    FileSystem,    \* Templater.FileSystem: an fs.FS (see Open)
    disk,          \* the directory a DirFS reads: path -> content (a version)
    Functions,     \* Templater.Functions: function name -> function
    panicked,      \* a setup call has panicked
    handles,       \* per goroutine: name of the Subtemplate handle it holds
    opened,        \* the last Open made on FileSystem directly: [name, file]
    setupLog,      \* history of the setup calls: [explicit, origin, walked]
    Includes,      \* Templater.Includes: name -> path
    tmpl,          \* Templater.tmpl, the atomic.Value: [typ, data]
    stack,         \* per goroutine: the frames of its calls, outermost first
    sink,          \* per goroutine: what the writer of its outermost call got
    hookCalls,     \* per goroutine: OnRenderFail calls during the outermost call
    lastReturned,  \* history: tree last returned by Load since the last Reset
    pendingNext,   \* history: Reset has run and no Load has started since
    everReset,     \* history: Reset has run at least once
    editedSince,   \* history: a file has changed since the last Reset
    callers        \* goroutines that make calls in this configuration

vars == <<DebugMode, OnRenderFail, Markdown, FileSystem, disk, Functions,
          panicked, handles, opened, setupLog, Includes, tmpl, stack,
          sink, hookCalls, lastReturned, pendingNext, everReset,
          editedSince, callers>>

config == <<DebugMode, OnRenderFail, Markdown, Includes, callers>>

\* what only the setup calls and direct Opens change
setup == <<Functions, panicked, handles, opened, setupLog>>

\* what the setup calls leave alone: the switches, and the state of the calls
flags == <<DebugMode, OnRenderFail, Markdown, callers>>

run == <<tmpl, stack, sink, hookCalls, lastReturned, pendingNext, everReset,
         editedSince>>

\* ----------------------------------------------------------------- paths
\* A path is the sequence of its characters.
PagePath == <<"p", ".", "h", "t", "m">>
DocPath == <<"d", ".", "m", "d">>
SubPagePath == <<"a", "/", "p", ".", "h", "t", "m">>
TextPath == <<"x", ".", "t", "x", "t">>
Paths == {PagePath, DocPath, SubPagePath, TextPath}

RECURSIVE ExtFrom(_, _)
\* path/filepath.Ext: the suffix from the last dot of the last path element.
ExtFrom(path, i) ==
    IF i = 0 \/ path[i] = "/" THEN <<>>
    ELSE IF path[i] = "." THEN SubSeq(path, i, Len(path))
    ELSE ExtFrom(path, i - 1)

Ext(path) == ExtFrom(path, Len(path))

MdExt == <<".", "m", "d">>

\* A template name is a sequence of characters too: Preregister derives it
\* from a path.
PageName == <<"p">>
DocName == <<"d">>
NopeName == <<"n">>                  \* never registered, no file gives it
NoName == <<>>

Names == {PageName, DocName}
ExecNames == Names \cup {NopeName}
Data == {"ok", "bad"}                \* "bad": a value the template fails on

\* Includes[name], "" for an absent key as a Go map read gives.
IncludesAt(name) == IF name \in DOMAIN Includes THEN Includes[name] ELSE <<>>

\* ----------------------------------------------------------------- trees
\* A *template.Template: id 0 is the nil pointer, and a tree built by
\* goroutine p has id p; tpl maps each parsed name to the content it was
\* parsed from.
Nil == [id |-> 0, tpl |-> <<>>]

IsTree(t) == t.id # 0

ZeroValue == [typ |-> FALSE, data |-> Nil]     \* atomic.Value{}

\* atomic.Value.Load followed by the comma-ok assertion to *template.Template
ValueLoad(v) == IF v.typ THEN v.data ELSE Nil

\* a slot whose swap is a plain Store
CompareAndSwap_Always(v, old) == TRUE

\* atomic.Value.CompareAndSwap(old, new) with old a typed pointer: on a Value
\* never stored to, a non-nil interface old (a typed nil pointer is one)
\* makes it return false; otherwise it swaps when the stored pointer is old.
CompareAndSwap(v, old) == v.typ /\ v.data = old

\* atomic.Value.Store
ValueStore(t) == [typ |-> TRUE, data |-> t]

\* ----------------------------------------------------------- filesystems
RECURSIVE BaseFrom(_, _)
\* path/filepath.Base of a path that does not end in a slash
BaseFrom(path, i) ==
    IF i = 0 \/ path[i] = "/" THEN SubSeq(path, i + 1, Len(path))
    ELSE BaseFrom(path, i - 1)

Base(path) == BaseFrom(path, Len(path))

\* An fs.FS is a record with its kind: the directory `disk`, ...
DirFS == [kind |-> "dir"]

\* ... a fixed set of entries: path -> [name, data, openerr, staterr], where
\* name is what Stat().Name() reports for the entry, ...
MemFS(files) == [kind |-> "mem", files |-> files]

Entry(name, data) ==
    [name |-> name, data |-> data, openerr |-> "nil", staterr |-> "nil"]

\* an Override that puts the new filesystem under the active one
OverrideFS_BaseFirst(base, override) ==
    [kind |-> "override", base |-> override, override |-> base]

\* ... fs.go, lines 8-17 ...
OverrideFS(base, override) ==
    [kind |-> "override", base |-> base, override |-> override]

\* ... and fs.go, lines 27-36
FilterFileTypes(fsys, fileTypes) ==
    [kind |-> "filter", fs |-> fsys, fileTypes |-> fileTypes]

\* What Open returns: the error, and for an fs.File its Stat name, its Stat
\* error and its bytes.
Failed(err) == [err |-> err, name |-> <<>>, data |-> 0, staterr |-> "nil"]

File(e) == [err |-> "nil", name |-> e.name, data |-> e.data, staterr |-> e.staterr]

\* fs.go, lines 38-46
isFileType(name, fileTypes) == Ext(name) \in fileTypes

\* an overlay that asks the base first
TriedFirst_Base(ov) == ov.base

\* fs.go, line 20: the layer Open asks first ...
TriedFirst(ov) == ov.override

\* ... and line 22: the layer it asks when the first returned an error
TriedSecond(ov) == ov.base

\* a filter that looks at the name it was asked for
StatName_Requested(file, name) == name

\* fs.go, lines 56-61: the name the filter decides on is stat.Name()
StatName(file, name) == file.name

RECURSIVE Open(_, _)
\* fs.FS.Open; fs.go lines 19-25 (overrideFS) and 48-66 (filterFS)
Open(fsys, name) ==
    CASE fsys.kind = "dir" ->
            IF name \in DOMAIN disk THEN File(Entry(Base(name), disk[name]))
            ELSE Failed("ErrNotExist")
      [] fsys.kind = "mem" ->
            IF name \notin DOMAIN fsys.files THEN Failed("ErrNotExist")
            ELSE IF fsys.files[name].openerr # "nil"
                 THEN Failed(fsys.files[name].openerr)
            ELSE File(fsys.files[name])
      [] fsys.kind = "override" ->
            LET f == Open(TriedFirst(fsys), name)
            IN IF f.err # "nil" THEN Open(TriedSecond(fsys), name) ELSE f
      [] fsys.kind = "filter" ->
            LET file == Open(fsys.fs, name)
            IN IF file.err # "nil" THEN Failed(file.err)
               ELSE IF file.staterr # "nil" THEN Failed(file.staterr)
               ELSE IF ~isFileType(StatName(file, name), fsys.fileTypes)
                    THEN Failed("ErrNotExist")
               ELSE file

NoOpen == [name |-> <<>>, file |-> Failed("nil")]

\* explicit: name -> [path, late] of the first Register call for the name,
\* late saying that Preregister had run before it; walked: Preregister ran
NoLog == [explicit |-> <<>>, walked |-> FALSE]

\* readFile, lines 282-289 (a read error ends the process: the files that
\* the configurations below register can all be read)
readFile(fsys, filePath) == Open(fsys, filePath).data

\* the parse loop of Load over Includes, reading each file
BuildTpl(incl, fsys) == [n \in DOMAIN incl |-> readFile(fsys, incl[n])]


\* ---------------------------------------------------------------- output
\* html/template output of template n parsed from content ver: two parts.
Tok(n, ver, part) == [n |-> n, ver |-> ver, part |-> part, md |-> FALSE]

Fallback == [n |-> NoName, ver |-> 0, part |-> 0, md |-> FALSE]

\* Template.ExecuteTemplate(w, name, v) on tree t: what it writes ...
TemplateOutput(t, n, v) ==
    IF n \notin DOMAIN t.tpl THEN <<>>
    ELSE IF v = "bad" THEN <<Tok(n, t.tpl[n], 1)>>
    ELSE <<Tok(n, t.tpl[n], 1), Tok(n, t.tpl[n], 2)>>

\* ... and the error it returns
TemplateError(t, n, v) ==
    IF n \notin DOMAIN t.tpl THEN "ErrNoTemplate"
    ELSE IF v = "bad" THEN "ErrExec"
    ELSE "nil"

\* goldmark's rendering of a buffer
MarkdownRender(buf) == [i \in 1..Len(buf) |-> [buf[i] EXCEPT !.md = TRUE]]

\* --------------------------------------------------------------- writers
\* An io.Writer: tgt 0 is the writer of the goroutine's outermost call, tgt
\* d > 0 is the bytes.Buffer `out` of the frame at depth d; fail says the
\* writer is a failWriter{...} around that target.
SinkWriter == [tgt |-> 0, fail |-> FALSE]
NoWriter == [tgt |-> -1, fail |-> FALSE]

failWriter(w) == [w EXCEPT !.fail = TRUE]

StackAfterWrite(s, w, toks) ==
    IF w.tgt > 0 THEN [s EXCEPT ![w.tgt].out = @ \o toks] ELSE s

SinkAfterWrite(k, w, toks) == IF w.tgt = 0 THEN k \o toks ELSE k

\* ---------------------------------------------------------------- frames
Top(p) == stack[p][Len(stack[p])]

Depth(p) == Len(stack[p])

At(p, pc) == Depth(p) > 0 /\ Top(p).pc = pc

Frames == {<<p, d>> : p \in Procs, d \in 1..MaxDepth}

Live == {x \in Frames : x[2] <= Len(stack[x[1]])}

Frame(x) == stack[x[1]][x[2]]

\* Frame fields kept for the properties: after (a Load had returned when the
\* call started), next (the call is the first since a Reset), edited (a file
\* changed during the call), lost (the call's compare-and-swap failed on an
\* installed tree and it has not read the slot again: "yes", and "reset"
\* once a Reset has run since).
NewFrame(op, n, v, w) ==
    [op |-> op, name |-> n, v |-> v, w |-> w, pc |-> "Load",
     tmpl |-> Nil, out |-> <<>>, err |-> "nil", raised |-> "nil",
     hw |-> NoWriter,
     after |-> IsTree(lastReturned),
     next |-> pendingNext, edited |-> FALSE, lost |-> "no"]

\* Execute, line 181: the Markdown branch is taken
IsMarkdown(n) == Markdown /\ Ext(IncludesAt(n)) = MdExt

\* an Execute that runs the Markdown template straight into w
MdWriter_Direct(d, w) == w

\* the writer Execute hands to execute at depth d: &out or w
MdWriter(d, w) == [tgt |-> d, fail |-> FALSE]

ExecWriter(f, d) == IF IsMarkdown(f.name) THEN MdWriter(d, f.w) ELSE f.w

\* ------------------------------------------------------------------ Init
Registry == [n \in Names |-> IF n = DocName THEN DocPath ELSE PagePath]

\* a Templater no call has been made on, and the files as first written
InitState ==
    /\ disk = [path \in Paths |-> 1]
    /\ Functions = <<>>
    /\ panicked = FALSE
    /\ handles = [p \in Procs |-> NoName]
    /\ opened = NoOpen
    /\ setupLog = NoLog
    /\ tmpl = ZeroValue
    /\ stack = [p \in Procs |-> <<>>]
    /\ sink = [p \in Procs |-> <<>>]
    /\ hookCalls = [p \in Procs |-> 0]
    /\ lastReturned = Nil
    /\ pendingNext = FALSE
    /\ everReset = FALSE
    /\ editedSince = FALSE

\* ... whose FileSystem is the directory
InitCommon ==
    /\ FileSystem = DirFS
    /\ InitState

\* one goroutine, every configuration of the callback and of Markdown
Init ==
    /\ InitCommon
    /\ DebugMode \in BOOLEAN
    /\ Includes = Registry
    /\ OnRenderFail \in BOOLEAN
    /\ Markdown \in BOOLEAN
    /\ callers = {1}

\* NumProcs goroutines on a Templater without callback and without Markdown
LoadInit ==
    /\ InitCommon
    /\ DebugMode = FALSE
    /\ Includes = [n \in {PageName} |-> PagePath]
    /\ OnRenderFail = FALSE
    /\ Markdown = FALSE
    /\ callers = Procs

\* ----------------------------------------------------------------- calls
CallLoad(p) ==
    /\ p \in callers /\ stack[p] = <<>>
    /\ stack' = [stack EXCEPT ![p] = <<NewFrame("Load", NoName, "", NoWriter)>>]
    /\ pendingNext' = FALSE
    /\ UNCHANGED <<config, setup, everReset, editedSince, FileSystem, disk, tmpl, sink, hookCalls, lastReturned>>

\* Preload, lines 213-215
CallPreload(p) ==
    /\ p \in callers /\ stack[p] = <<>>
    /\ stack' = [stack EXCEPT ![p] = <<NewFrame("Preload", NoName, "", NoWriter)>>]
    /\ pendingNext' = FALSE
    /\ UNCHANGED <<config, setup, everReset, editedSince, FileSystem, disk, tmpl, sink, hookCalls, lastReturned>>

\* Execute(w, n, v) with a writer of the caller's; lines 180-183, 195
CallExecute(p, n, v) ==
    /\ p \in callers /\ stack[p] = <<>>
    /\ stack' = [stack EXCEPT ![p] = <<NewFrame("Execute", n, v, SinkWriter)>>]
    /\ pendingNext' = FALSE
    /\ UNCHANGED <<config, setup, everReset, editedSince, FileSystem, disk, tmpl, sink, hookCalls, lastReturned>>

\* ------------------------------------------------------------------ Load
\* a Load that ignores what the slot holds and always builds
HasTmpl_Never(t) == FALSE

\* line 222
HasTmpl(t) == IsTree(t)

\* the frame after Load has returned t
LoadReturn(f, t) ==
    [f EXCEPT !.tmpl = IF f.op = "Preload" THEN Nil ELSE t,
              !.lost = "no",
              !.pc = IF f.op = "Execute" THEN "ExecuteTemplate" ELSE "ret"]

\* lines 221-226: read the slot; return what is there or go on to build
LoadRead(p) ==
    /\ At(p, "Load")
    /\ LET t == ValueLoad(tmpl)
           d == Depth(p)
       IN IF HasTmpl(t)
          THEN /\ stack' = [stack EXCEPT ![p][d] = LoadReturn(@, t)]
               /\ lastReturned' = IF DebugMode THEN lastReturned ELSE t
          ELSE /\ stack' = [stack EXCEPT ![p][d].pc = "build", ![p][d].lost = "no"]
               /\ UNCHANGED lastReturned
    /\ UNCHANGED <<config, setup, everReset, editedSince, FileSystem, disk, tmpl, sink, hookCalls, pendingNext>>

\* a Load that stores the tree in debug mode as well
SkipStore_Never == FALSE

\* line 234: the freshly built tree is returned without being stored
SkipStore == DebugMode

\* lines 228-237: build the tree from Includes and the files
LoadBuild(p) ==
    /\ At(p, "build")
    /\ LET t == [id |-> p, tpl |-> BuildTpl(Includes, FileSystem)]
           d == Depth(p)
       IN IF SkipStore
          THEN stack' = [stack EXCEPT ![p][d] = LoadReturn(@, t)]
          ELSE stack' = [stack EXCEPT ![p][d].tmpl = t, ![p][d].pc = "cas"]
    /\ UNCHANGED <<config, setup, everReset, editedSince, FileSystem, disk, tmpl, sink, hookCalls, lastReturned,
                   pendingNext>>

\* lines 239-243: install the tree if the slot still holds oldTmpl (nil),
\* else drop it and start over
LoadCAS(p) ==
    /\ At(p, "cas")
    /\ LET t == Top(p).tmpl
           d == Depth(p)
       IN IF CompareAndSwap(tmpl, Nil)
          THEN /\ tmpl' = ValueStore(t)
               /\ stack' = [stack EXCEPT ![p][d] = LoadReturn(@, t)]
               /\ lastReturned' = IF DebugMode THEN lastReturned ELSE t
          ELSE /\ stack' = [stack EXCEPT
                              ![p][d].tmpl = Nil, ![p][d].pc = "Load",
                              ![p][d].lost = IF IsTree(ValueLoad(tmpl))
                                             THEN "yes" ELSE @]
               /\ UNCHANGED <<tmpl, lastReturned>>
    /\ UNCHANGED <<config, setup, everReset, editedSince, FileSystem, disk, sink, hookCalls, pendingNext>>

\* Reset, lines 247-249; any goroutine, one atomic Store
Reset ==
    /\ tmpl' = ValueStore(Nil)
    /\ lastReturned' = Nil
    /\ pendingNext' = TRUE
    /\ everReset' = TRUE
    /\ editedSince' = FALSE
    /\ stack' = [p \in Procs |->
                   [d \in 1..Len(stack[p]) |->
                      [stack[p][d] EXCEPT
                          !.after = FALSE, !.next = FALSE,
                          !.lost = IF @ = "yes" THEN "reset" ELSE @]]]
    /\ UNCHANGED <<config, setup, FileSystem, disk, sink, hookCalls>>

\* a registered source file changes under the Templater (an edit on disk)
EditFile(path) ==
    /\ \E n \in DOMAIN Includes : Includes[n] = path
    /\ \E ver \in Versions :
          /\ ver # disk[path]
          /\ disk' = [disk EXCEPT ![path] = ver]
    /\ stack' = [p \in Procs |->
                   [d \in 1..Len(stack[p]) |->
                      [stack[p][d] EXCEPT !.edited = DebugMode]]]
    /\ editedSince' = TRUE
    /\ UNCHANGED <<config, setup, everReset, FileSystem, tmpl, sink, hookCalls,
                   lastReturned, pendingNext>>

\* --------------------------------------------------------------- Execute
\* an Execute that reports the failure to the callback only
ReturnErr_Swallow(e) == "nil"

\* lines 174, 184, 189, 196: the error Execute hands back to its caller
ReturnErr(e) == e

\* an execute that reads the slot again for the tree it runs
ExecTree_Reload(f) == ValueLoad(tmpl)

\* line 172: the tree execute runs is the one its Load call returned
ExecTree(f) == f.tmpl

\* line 172: run the template on the loaded tree, writing to &out or to w
ExecuteTemplate(p) ==
    /\ At(p, "ExecuteTemplate")
    /\ LET f == Top(p)
           d == Depth(p)
           w == ExecWriter(f, d)
           toks == TemplateOutput(ExecTree(f), f.name, f.v)
           e == TemplateError(ExecTree(f), f.name, f.v)
           g == [f EXCEPT !.tmpl = Nil, !.after = FALSE, !.next = FALSE,
                          !.raised = e, !.err = ReturnErr(e),
                          !.pc = IF e # "nil" THEN "onRenderFail"
                                 ELSE IF IsMarkdown(f.name) THEN "Convert"
                                 ELSE "ret"]
       IN /\ stack' = [stack EXCEPT
                         ![p] = StackAfterWrite([@ EXCEPT ![d] = g], w, toks)]
          /\ sink' = [sink EXCEPT ![p] = SinkAfterWrite(@, w, toks)]
    /\ UNCHANGED <<config, setup, everReset, editedSince, FileSystem, disk, tmpl, hookCalls, lastReturned, pendingNext>>

\* line 187: goldmark renders the buffer into w; it may fail after having
\* written any proper prefix of its output
Convert(p) ==
    /\ At(p, "Convert")
    /\ LET f == Top(p)
           d == Depth(p)
           html == MarkdownRender(f.out)
       IN \E k \in 0..Len(html) :
            LET e == IF k = Len(html) THEN "nil" ELSE "ErrConvert"
                toks == SubSeq(html, 1, k)
                g == [f EXCEPT !.raised = e, !.err = ReturnErr(e),
                               !.pc = IF e # "nil" THEN "onRenderFail" ELSE "ret"]
            IN /\ stack' = [stack EXCEPT
                              ![p] = StackAfterWrite([@ EXCEPT ![d] = g], f.w, toks)]
               /\ sink' = [sink EXCEPT ![p] = SinkAfterWrite(@, f.w, toks)]
    /\ UNCHANGED <<config, setup, everReset, editedSince, FileSystem, disk, tmpl, hookCalls, lastReturned, pendingNext>>

\* the writer onRenderFail is called with: execute passes its own writer
\* (line 173), Execute passes w after a failed conversion (line 188)
FailedWriter(f, d) == IF f.raised = "ErrConvert" THEN f.w ELSE ExecWriter(f, d)

\* an onRenderFail that never calls the callback
CallsHook_Never(w) == FALSE

\* lines 130-136: the callback is set and the writer is not a failWriter
CallsHook(w) == OnRenderFail /\ ~w.fail

\* onRenderFail, lines 121-141
onRenderFail(p) ==
    /\ At(p, "onRenderFail")
    /\ LET f == Top(p)
           d == Depth(p)
           w == FailedWriter(f, d)
       IN IF CallsHook(w)
          THEN /\ stack' = [stack EXCEPT ![p][d].hw = failWriter(w),
                                         ![p][d].pc = "hook"]
               /\ hookCalls' = [hookCalls EXCEPT ![p] = @ + 1]
          ELSE /\ stack' = [stack EXCEPT ![p][d].pc = "ret"]
               /\ UNCHANGED hookCalls
    /\ UNCHANGED <<config, setup, everReset, editedSince, FileSystem, disk, tmpl, sink, lastReturned, pendingNext>>

\* The callback (RenderFailFunc, line 115) is the application's.  It returns
\* at once, or writes a fallback to the writer it was given, or renders a
\* template into that writer with Execute.
HookReturn(p) ==
    /\ At(p, "hook")
    /\ stack' = [stack EXCEPT ![p][Depth(p)].pc = "ret"]
    /\ UNCHANGED <<config, setup, everReset, editedSince, FileSystem, disk, tmpl, sink, hookCalls, lastReturned,
                   pendingNext>>

HookWrite(p) ==
    /\ At(p, "hook")
    /\ LET f == Top(p)
           d == Depth(p)
       IN /\ stack' = [stack EXCEPT
                         ![p] = StackAfterWrite([@ EXCEPT ![d].pc = "ret"],
                                                f.hw, <<Fallback>>)]
          /\ sink' = [sink EXCEPT ![p] = SinkAfterWrite(@, f.hw, <<Fallback>>)]
    /\ UNCHANGED <<config, setup, everReset, editedSince, FileSystem, disk, tmpl, hookCalls, lastReturned, pendingNext>>

HookExecute(p, n, v) ==
    /\ At(p, "hook")
    /\ Depth(p) < MaxDepth
    /\ LET f == Top(p)
           d == Depth(p)
       IN stack' = [stack EXCEPT
                      ![p] = Append([@ EXCEPT ![d].pc = "inhook"],
                                    NewFrame("Execute", n, v, f.hw))]
    /\ pendingNext' = FALSE
    /\ UNCHANGED <<config, setup, everReset, editedSince, FileSystem, disk, tmpl, sink, hookCalls, lastReturned>>

\* the call returns: its frame goes, and a callback that was waiting for
\* the render returns as well
Return(p) ==
    /\ At(p, "ret")
    /\ LET d == Depth(p)
       IN IF d > 1
          THEN /\ stack' = [stack EXCEPT
                              ![p] = [SubSeq(@, 1, d - 1) EXCEPT ![d - 1].pc = "ret"]]
               /\ UNCHANGED <<sink, hookCalls>>
          ELSE /\ stack' = [stack EXCEPT ![p] = <<>>]
               /\ sink' = [sink EXCEPT ![p] = <<>>]
               /\ hookCalls' = [hookCalls EXCEPT ![p] = 0]
    /\ UNCHANGED <<config, setup, everReset, editedSince, FileSystem, disk, tmpl, lastReturned, pendingNext>>

\* ----------------------------------------------------------------- setup
\* m[key] = val on a Go map
Put(m, key, val) == [k \in DOMAIN m \cup {key} |-> IF k = key THEN val ELSE m[k]]

\* a Register that takes the path of the latest call
Registered_Overwrite(incl, name, path) == Put(incl, name, path)

\* lines 147-153: the registry after Register(name, path)
Registered(incl, name, path) ==
    IF name \notin DOMAIN incl THEN Put(incl, name, path) ELSE incl

\* Register, lines 146-156; the handle goes to the calling goroutine
Register(name, path) ==
    /\ ~panicked
    /\ Includes' = Registered(Includes, name, path)
    /\ handles' = [handles EXCEPT ![1] = name]
    /\ setupLog' =
          IF name \in DOMAIN setupLog.explicit THEN setupLog
          ELSE [setupLog EXCEPT
                  !.explicit = Put(@, name, [path |-> path, late |-> setupLog.walked])]
    /\ UNCHANGED <<flags, run, FileSystem, disk, Functions, panicked, opened>>

\* line 55
HTMLExtensions == {<<".", "h", "t", "m", "l">>, <<".", "h", "t", "m">>, MdExt}

\* lines 57-67
isHTML(path) == Ext(path) \in HTMLExtensions

\* fs.WalkDir(tmpler.FileSystem, ".") on the directory `disk`: the root, then
\* the entries of each directory by name, a directory's own entries before
\* its next sibling
WalkDir == <<<<".">>, <<"a">>, SubPagePath, DocPath, PagePath, TextPath>>

\* lines 90-91: the base name without its extension
DerivedName(name) ==
    LET base == Base(name)
    IN SubSeq(base, 1, Len(base) - Len(Ext(base)))

\* a walk that registers every file it finds, known name or not
Known_Never(incl, name) == FALSE

\* line 93
Known(incl, name) == name \in DOMAIN incl

RECURSIVE WalkFrom(_, _)
\* the callback of the walk, lines 80-103, from entry i on
WalkFrom(incl, i) ==
    IF i > Len(WalkDir) THEN incl
    ELSE LET fullPath == WalkDir[i]
             name == Base(fullPath)
         IN IF ~isHTML(name) \/ Known(incl, DerivedName(name))
            THEN WalkFrom(incl, i + 1)
            ELSE WalkFrom(Put(incl, DerivedName(name), fullPath), i + 1)

\* Preregister, lines 78-111, on a Templater whose FileSystem is the directory
Preregister ==
    /\ ~panicked
    /\ FileSystem = DirFS
    /\ Includes' = WalkFrom(Includes, 1)
    /\ setupLog' = [setupLog EXCEPT !.walked = TRUE]
    /\ UNCHANGED <<flags, run, FileSystem, disk, Functions, panicked, handles,
                   opened>>

FuncNames == {"f", "g"}
Funcs == {"fn1", "fn2"}

\* a Func that takes the function of the latest call
Duplicate_Never(fns, name) == FALSE

\* line 205
Duplicate(fns, name) == name \in DOMAIN fns

\* Func, lines 204-209: log.Panicln on a duplicate, before the assignment
Func(name, fn) ==
    /\ ~panicked
    /\ IF Duplicate(Functions, name)
       THEN /\ panicked' = TRUE
            /\ UNCHANGED Functions
       ELSE /\ Functions' = Put(Functions, name, fn)
            /\ UNCHANGED panicked
    /\ UNCHANGED <<flags, run, FileSystem, disk, Includes, handles, opened,
                   setupLog>>

\* Subtemplate, lines 167-169: a handle for any name
Subtemplate(p, n) ==
    /\ p \in callers /\ stack[p] = <<>>
    /\ ~panicked
    /\ handles' = [handles EXCEPT ![p] = n]
    /\ UNCHANGED <<flags, run, FileSystem, disk, Includes, Functions, panicked,
                   opened, setupLog>>

\* Subtemplate.Execute, lines 267-270: Execute with the handle's name
SubExecute(p, v) ==
    /\ handles[p] # NoName
    /\ CallExecute(p, handles[p], v)

\* ------------------------------------------------- the filesystem layers
\* a file no layer has
MissingPath == <<"q", ".", "h", "t", "m">>

OpenNames == Paths \cup {MissingPath}

\* filesystems of the application's: one that has p.htm only, ...
PageOnly == MemFS([path \in {PagePath} |-> Entry(Base(PagePath), 3)])

\* ... one that has d.md only, ...
DocOnly == MemFS([path \in {DocPath} |-> Entry(Base(DocPath), 3)])

\* ... and one that rewrites paths (p.htm opens a file that reports x.txt,
\* x.txt one that reports p.htm), cannot open d.md and opens a/p.htm as a
\* file whose Stat fails
Rewriting ==
    MemFS([path \in Paths |->
             CASE path = PagePath -> Entry(TextPath, 3)
               [] path = TextPath -> Entry(PagePath, 3)
               [] path = DocPath ->
                    [Entry(DocPath, 3) EXCEPT !.openerr = "ErrPermission"]
               [] path = SubPagePath ->
                    [Entry(PagePath, 3) EXCEPT !.staterr = "ErrClosed"]])

Layers == {DirFS, PageOnly, Rewriting}

\* the fileTypes a filter is made with
TypeLists == {{<<".", "h", "t", "m">>}, {<<".", "h", "t", "m">>, MdExt}}

\* tmpler.FileSystem.Open(name), as readFile and the walk call it
OpenFile(name) ==
    /\ opened' = [name |-> name, file |-> Open(FileSystem, name)]
    /\ UNCHANGED <<flags, run, FileSystem, disk, Includes, Functions, panicked,
                   handles, setupLog>>

\* the filesystems an application overrides template files with
Overlays == {PageOnly, DocOnly}

RECURSIVE Overlaid(_)
\* the number of overlays Override has put on the directory
Overlaid(fsys) == IF fsys.kind = "override" THEN 1 + Overlaid(fsys.base) ELSE 0

\* Override, lines 160-162; a setup call, made while no call is running
Override(ov) ==
    /\ \A p \in Procs : stack[p] = <<>>
    /\ Overlaid(FileSystem) < MaxOverrides
    /\ FileSystem' = OverrideFS(FileSystem, ov)
    /\ UNCHANGED <<flags, run, setup, disk, Includes>>

\* ------------------------------------------------------------------ Next
Step(p) ==
    \/ CallLoad(p)
    \/ CallPreload(p)
    \/ \E n \in ExecNames, v \in Data : CallExecute(p, n, v)
    \/ LoadRead(p)
    \/ LoadBuild(p)
    \/ LoadCAS(p)
    \/ ExecuteTemplate(p)
    \/ Convert(p)
    \/ onRenderFail(p)
    \/ HookReturn(p)
    \/ HookWrite(p)
    \/ \E n \in ExecNames, v \in Data : HookExecute(p, n, v)
    \/ Return(p)

Next ==
    \/ \E p \in Procs : Step(p)
    \/ Reset
    \/ \E path \in Paths : EditFile(path)

Spec == Init /\ [][Next]_vars

\* the steps of a goroutine whose renders succeed, when neither callback
\* nor Markdown is set
LoadStep(p) ==
    \/ CallLoad(p)
    \/ CallPreload(p)
    \/ \E n \in DOMAIN Includes : CallExecute(p, n, "ok")
    \/ LoadRead(p)
    \/ LoadBuild(p)
    \/ LoadCAS(p)
    \/ ExecuteTemplate(p)
    \/ Return(p)

LoadNext ==
    \/ \E p \in Procs : LoadStep(p)
    \/ Reset
    \/ \E path \in Paths : EditFile(path)

LoadSpec == LoadInit /\ [][LoadNext]_vars

\* goroutines are scheduled fairly; Reset and edits need not happen
FairLoadSpec == LoadSpec /\ \A p \in Procs : WF_vars(LoadStep(p))

\* one goroutine that renders through Subtemplate handles only
HandleStep(p) ==
    \/ \E n \in ExecNames : Subtemplate(p, n)
    \/ \E v \in Data : SubExecute(p, v)
    \/ LoadRead(p)
    \/ LoadBuild(p)
    \/ LoadCAS(p)
    \/ ExecuteTemplate(p)
    \/ Convert(p)
    \/ onRenderFail(p)
    \/ HookReturn(p)
    \/ HookWrite(p)
    \/ \E n \in ExecNames, v \in Data : HookExecute(p, n, v)
    \/ Return(p)

HandleNext ==
    \/ \E p \in Procs : HandleStep(p)
    \/ Reset

HandleSpec == Init /\ [][HandleNext]_vars

\* one goroutine, with or without debug mode, and Override between its calls
OverrideInit ==
    /\ InitCommon
    /\ DebugMode \in BOOLEAN
    /\ Includes = Registry
    /\ OnRenderFail = FALSE
    /\ Markdown = FALSE
    /\ callers = {1}

OverrideNext ==
    \/ LoadNext
    \/ \E ov \in Overlays : Override(ov)

OverrideSpec == OverrideInit /\ [][OverrideNext]_vars

\* the single-threaded setup phase on a Templater with an empty registry and
\* an empty function table
SetupInit ==
    /\ InitCommon
    /\ DebugMode = FALSE
    /\ Includes = <<>>
    /\ OnRenderFail = FALSE
    /\ Markdown = FALSE
    /\ callers = {1}

SetupNext ==
    \/ \E name \in Names, path \in {PagePath, DocPath} : Register(name, path)
    \/ Preregister
    \/ \E name \in FuncNames, fn \in Funcs : Func(name, fn)
    \/ \E n \in ExecNames : Subtemplate(1, n)

SetupSpec == SetupInit /\ [][SetupNext]_vars

\* Open on one overlay or one filter over the layers, whose files change
FsInit ==
    /\ InitState
    /\ FileSystem \in {OverrideFS(b, o) : b, o \in Layers}
                      \cup {FilterFileTypes(u, t) : u \in Layers, t \in TypeLists}
    /\ DebugMode = FALSE
    /\ Includes = Registry
    /\ OnRenderFail = FALSE
    /\ Markdown = FALSE
    /\ callers = {1}

FsNext ==
    \/ \E name \in OpenNames : OpenFile(name)
    \/ \E path \in Paths : EditFile(path)

FsSpec == FsInit /\ [][FsNext]_vars

\* ---------------------------------------------------------------- claims
\* the goroutine is inside Load: between the call and Load's return
InLoad(p) == Depth(p) > 0 /\ Top(p).pc \in {"Load", "build", "cas"}

\* the frame holds a tree that Load has returned to it
HoldsLoaded(f) == IsTree(f.tmpl) /\ f.pc \in {"ExecuteTemplate", "ret"}

\* C1: on a freshly constructed Templater, outside debug mode, concurrent
\* first Load/Execute calls install exactly one tree and all go on with it:
\* once a call has done its compare-and-swap a tree is installed, and a
\* call that Load has returned to holds the installed tree until Reset.
C1_OneTreeForAll ==
    [][/\ \A p \in Procs : LoadCAS(p) => IsTree(ValueLoad(tmpl'))
       /\ \A x \in Live : HoldsLoaded(Frame(x)) /\ ~everReset
                             => Frame(x).tmpl = ValueLoad(tmpl)]_vars

\* C2: without a Reset, every Load on a freshly constructed Templater
\* returns eventually; the compile-and-swap loop does not run forever.
C2_LoadReturns ==
    \A p \in Procs : [](InLoad(p) => <>(~InLoad(p) \/ everReset))

\* C3: outside debug mode, once a Load has returned and no Reset has run
\* since, a Load that starts later reads no file (it never gets to build a
\* tree) and returns the tree that was returned before.
C3_LoadIdempotent ==
    ~DebugMode =>
        \A x \in Live :
            Frame(x).after =>
                /\ Frame(x).pc \notin {"build", "cas"}
                /\ HoldsLoaded(Frame(x)) => Frame(x).tmpl = lastReturned

\* a later Load has returned the tree of the earlier one
C3_Witness ==
    /\ ~DebugMode
    /\ \E x \in Live : Frame(x).after /\ HoldsLoaded(Frame(x))

\* C4: the callback runs at most once during one outermost Execute, and
\* exactly once when that Execute fails, also when the callback renders a
\* template that fails in turn.
C4_HookOnce ==
    \A p \in Procs :
        /\ hookCalls[p] <= 1
        /\ (OnRenderFail /\ Depth(p) = 1 /\ Top(p).pc = "ret" /\ Top(p).raised # "nil")
              => hookCalls[p] = 1

\* C5: an Execute in which the template or the Markdown conversion failed
\* returns that error, not nil, whatever the callback did or did not do.
C5_ErrorReturned ==
    \A x \in Live :
        (Frame(x).op = "Execute" /\ Frame(x).pc = "ret")
            => Frame(x).err = Frame(x).raised

\* a failed outermost Execute is about to return after its callback ran, and
\* so is one whose callback was suppressed
C5_Witness ==
    \E p \in Procs :
        /\ Depth(p) = 1 /\ Top(p).pc = "ret" /\ Top(p).err = "ErrConvert"
        /\ hookCalls[p] = 1

\* the template of the outermost Execute of p failed on the Markdown path
MdExecFailed(p) ==
    /\ Depth(p) >= 1
    /\ IsMarkdown(stack[p][1].name)
    /\ stack[p][1].raised \in {"ErrExec", "ErrNoTemplate"}

\* C6: when the template of an Execute on the Markdown path fails, that
\* Execute does not call the Markdown renderer and the caller's writer has
\* received nothing.
C6_MdExecFailure ==
    \A p \in Procs :
        MdExecFailed(p) => stack[p][1].pc # "Convert" /\ sink[p] = <<>>

\* the failed template had written part of its output, and the callback ran
C6_Witness ==
    \E p \in Procs :
        /\ MdExecFailed(p)
        /\ stack[p][1].pc = "ret"
        /\ stack[p][1].out # <<>>
        /\ hookCalls[p] >= 1

\* C7: when the Markdown conversion of an outermost Execute fails, the
\* caller's writer has received no converted output.
C7_NoPartialConversion ==
    \A p \in Procs :
        (Depth(p) >= 1 /\ stack[p][1].raised = "ErrConvert")
            => \A i \in 1..Len(sink[p]) : ~sink[p][i].md

\* C8: in debug mode Load never stores a tree, and the tree it returns is
\* built from the files as they are: an Execute during which no file changed
\* goes on with a tree of the current contents and writes their output.
C8_DebugReload ==
    DebugMode =>
        /\ ~IsTree(tmpl.data)
        /\ \A x \in Live :
              (HoldsLoaded(Frame(x)) /\ ~Frame(x).edited)
                  => Frame(x).tmpl.tpl = BuildTpl(Includes, FileSystem)
        /\ \A p \in Procs :
              (/\ Depth(p) = 1 /\ Top(p).op = "Execute" /\ Top(p).pc = "ret"
               /\ Top(p).err = "nil" /\ ~Top(p).edited /\ ~IsMarkdown(Top(p).name))
                  => sink[p] = TemplateOutput(
                                  [id |-> p, tpl |-> BuildTpl(Includes, FileSystem)],
                                  Top(p).name, Top(p).v)

\* with no Reset ever, an Execute after an edit has written the new content
C8_Witness ==
    /\ DebugMode /\ ~everReset
    /\ \E p \in Procs :
          /\ Depth(p) = 1 /\ Top(p).pc = "ret" /\ ~Top(p).edited
          /\ sink[p] = <<Tok(PageName, 2, 1), Tok(PageName, 2, 2)>>

\* C9: the first Load to start after a Reset returns a tree built from the
\* files as they are (no file having changed since that Reset), whatever
\* Loads were in flight when Reset ran.
C9_LoadAfterReset ==
    \A x \in Live :
        (Frame(x).next /\ ~editedSince /\ HoldsLoaded(Frame(x)))
            => Frame(x).tmpl.tpl = BuildTpl(Includes, FileSystem)

\* C10: Reset leaves the slot as it is in a freshly constructed Templater:
\* what Load reads from it and what Load's compare-and-swap does on it are
\* the same.
C10_ResetIsFresh ==
    [][Reset => /\ ValueLoad(tmpl') = ValueLoad(ZeroValue)
                /\ CompareAndSwap(tmpl', Nil) = CompareAndSwap(ZeroValue, Nil)]_vars

\* the entries of the walk that give the name
Finds(name) ==
    {i \in 1..Len(WalkDir) :
        isHTML(Base(WalkDir[i])) /\ DerivedName(Base(WalkDir[i])) = name}

\* the path under which the walk discovers the name first
FirstFound(name) == WalkDir[CHOOSE i \in Finds(name) : \A j \in Finds(name) : i <= j]

\* name was given to Register and is the derived name of a file, and both
\* Register and Preregister have run
Collides(name) ==
    /\ setupLog.walked
    /\ name \in DOMAIN setupLog.explicit
    /\ Finds(name) # {}

\* C11 as stated: a name given to Register that is also the derived name of
\* a discovered file is mapped to the path given to Register, in whatever
\* order Register and Preregister were called.
C11_ExplicitWins ==
    \A name \in Names :
        Collides(name) => Includes[name] = setupLog.explicit[name].path

\* C11: of a Register call and a Preregister discovery of the same name the
\* earlier one decides: the registry maps the name to the path given to
\* Register when Register was called before Preregister, and to the path of
\* the first file the walk found when Preregister ran first.
C11_FirstWins ==
    \A name \in Names :
        Collides(name) =>
            Includes[name] = IF setupLog.explicit[name].late
                             THEN FirstFound(name)
                             ELSE setupLog.explicit[name].path

\* Register after Preregister: the discovered path stays; and Register before
\* Preregister: the explicit path stays
C11_Witness ==
    /\ Collides(PageName) /\ setupLog.explicit[PageName].late
    /\ Includes[PageName] = SubPagePath
    /\ Collides(DocName) /\ ~setupLog.explicit[DocName].late
    /\ Includes[DocName] = PagePath

\* C12: Register(name, path) adds name -> path when name is absent and
\* changes nothing in the registry when it is present, and hands out a handle
\* for name either way; no step of Register or Preregister changes or removes
\* an entry the registry has.
C12_EntriesKept ==
    [][/\ \A n \in DOMAIN Includes :
             n \in DOMAIN Includes' /\ Includes'[n] = Includes[n]
       /\ \A name \in Names, path \in Paths :
             Register(name, path) =>
                 /\ handles'[1] = name
                 /\ IF name \in DOMAIN Includes
                    THEN Includes' = Includes
                    ELSE /\ DOMAIN Includes' = DOMAIN Includes \cup {name}
                         /\ Includes'[name] = path]_vars

\* an explicit entry has survived a walk that found a file of its name, and
\* the walk has added the name that was absent
C12_Witness ==
    /\ setupLog.walked
    /\ PageName \in DOMAIN Includes /\ Includes[PageName] = DocPath
    /\ handles[1] = PageName
    /\ DocName \in DOMAIN Includes /\ Includes[DocName] = DocPath

\* C15: Func with a name the function table has panics in that call and
\* leaves the table as it is; with a new name it adds that entry and nothing
\* else.
C15_DuplicateFunc ==
    [][\A name \in FuncNames, fn \in Funcs :
          Func(name, fn) =>
              IF name \in DOMAIN Functions
              THEN panicked' /\ Functions' = Functions
              ELSE /\ ~panicked'
                   /\ DOMAIN Functions' = DOMAIN Functions \cup {name}
                   /\ Functions'[name] = fn
                   /\ \A k \in DOMAIN Functions : Functions'[k] = Functions[k]]_vars

\* the second Func("f", ...) has panicked; the table holds the first
C15_Witness ==
    /\ panicked
    /\ DOMAIN Functions = {"f", "g"}
    /\ Functions["f"] = "fn1"

\* C13: Open on OverrideFS(base, override) returns the override's file when
\* the override opens the path, and otherwise what the base returns, file or
\* error: a path both have never gives the base's content, and every call
\* asks the layers anew, whatever an earlier call returned.
C13_OverrideFirst ==
    [][\A name \in OpenNames :
          (OpenFile(name) /\ FileSystem.kind = "override") =>
              LET o == Open(FileSystem.override, name)
                  b == Open(FileSystem.base, name)
              IN /\ o.err = "nil" => opened'.file = o
                 /\ o.err # "nil" => opened'.file = b]_vars

\* p.htm is in both layers; the last Open returned the override's content as
\* it is after an edit, and not the base's
C13_Witness ==
    /\ FileSystem = OverrideFS(PageOnly, DirFS)
    /\ opened.name = PagePath
    /\ opened.file.err = "nil" /\ opened.file.data = 2
    /\ Open(FileSystem.base, PagePath).data = 3

\* C14: Open on FilterFileTypes(fs, types) returns the error of the
\* underlying Open or Stat when one of them fails; otherwise it returns the
\* underlying file when the extension of the name the file reports is among
\* types, and not-found when it is not, whatever name was asked for.
C14_FilterByStatName ==
    [][\A name \in OpenNames :
          (OpenFile(name) /\ FileSystem.kind = "filter") =>
              LET u == Open(FileSystem.fs, name)
                  f == opened'.file
              IN /\ u.err # "nil" => f.err = u.err
                 /\ (u.err = "nil" /\ u.staterr # "nil") => f.err = u.staterr
                 /\ (u.err = "nil" /\ u.staterr = "nil") =>
                       /\ Ext(u.name) \in FileSystem.fileTypes => f = u
                       /\ Ext(u.name) \notin FileSystem.fileTypes
                             => f.err = "ErrNotExist"]_vars

\* x.txt was asked for and the file that reports p.htm was returned
C14_Witness ==
    /\ FileSystem.kind = "filter"
    /\ opened.name = TextPath
    /\ Ext(opened.name) \notin FileSystem.fileTypes
    /\ opened.file.err = "nil" /\ opened.file.name = PagePath

\* the outermost call of p is an Execute through p's handle, and the name of
\* the handle is not registered
RunsUnregistered(p) ==
    /\ Depth(p) >= 1
    /\ stack[p][1].name = handles[p]
    /\ handles[p] \notin DOMAIN Includes

\* C16: Subtemplate gives a handle for any name and changes nothing else; an
\* Execute on a handle whose name is not registered ends with the "no such
\* template" error as its result, after the callback (when one is set) has
\* been called for it, and neither the registry nor the tree in the slot
\* gets an entry for the name.
C16_UnregisteredHandle ==
    /\ [][/\ \A p \in Procs, n \in ExecNames :
               Subtemplate(p, n) =>
                   /\ handles'[p] = n /\ n # NoName
                   /\ UNCHANGED <<Includes, tmpl, FileSystem, disk, Functions,
                                  stack, sink>>
          /\ \A p \in Procs :
               RunsUnregistered(p) =>
                   /\ handles[p] \notin DOMAIN Includes'
                   /\ handles[p] \notin DOMAIN ValueLoad(tmpl').tpl]_vars
    /\ [](\A p \in Procs :
             RunsUnregistered(p) =>
                 LET f == stack[p][1]
                 IN /\ f.pc # "Convert"
                    /\ f.pc \in {"onRenderFail", "hook", "inhook", "ret"}
                          => f.raised = "ErrNoTemplate" /\ f.err = "ErrNoTemplate"
                    /\ (f.pc = "ret" /\ OnRenderFail) => hookCalls[p] >= 1)

\* an Execute on the handle of a name nobody registered is about to return
\* its error, the callback having run
C16_Witness ==
    \E p \in Procs :
        /\ handles[p] = NopeName
        /\ RunsUnregistered(p)
        /\ Depth(p) = 1 /\ Top(p).pc = "ret" /\ Top(p).err = "ErrNoTemplate"
        /\ hookCalls[p] = 1

C18_OverrideOnlyLayers ==
    /\ [][\A ov \in Overlays :
             Override(ov) =>
                 /\ UNCHANGED <<tmpl, Includes, Functions>>
                 /\ \A name \in OpenNames :
                       Open(FileSystem', name) =
                           IF Open(ov, name).err = "nil" THEN Open(ov, name)
                           ELSE Open(FileSystem, name)]_vars
    /\ [](~DebugMode =>
             \A x \in Live :
                 (Frame(x).after /\ HoldsLoaded(Frame(x)))
                     => Frame(x).tmpl = lastReturned)

\* a Load after an Override has returned the installed tree, which is not
\* what the layered filesystem would give (no file was edited since the last
\* Reset)
C18_Witness ==
    /\ ~DebugMode /\ ~editedSince
    /\ Overlaid(FileSystem) >= 1
    /\ \E x \in Live :
          /\ Frame(x).after /\ HoldsLoaded(Frame(x))
          /\ Frame(x).tmpl = ValueLoad(tmpl)
          /\ Frame(x).tmpl.tpl # BuildTpl(Includes, FileSystem)

\* C19: while the callback of an Execute runs, the writer it was given is
\* the failWriter around the writer that Execute was called with.
C19_HookGetsCallersWriter ==
    \A x \in Live :
        Frame(x).pc \in {"hook", "inhook"} => Frame(x).hw = failWriter(Frame(x).w)

\* C20: Reset stores nil in the slot and leaves the tree of every call in
\* flight as it is, and execute runs the tree its Load returned: what it
\* writes and the error it gets are those of that tree, whatever the slot
\* holds by then.
C20_InFlightKeepsTree ==
    [][/\ Reset =>
             /\ tmpl' = ValueStore(Nil)
             /\ \A x \in Live : stack'[x[1]][x[2]].tmpl = Frame(x).tmpl
       /\ \A p \in Procs :
             ExecuteTemplate(p) =>
                 LET f == Top(p)
                     d == Depth(p)
                     w == ExecWriter(f, d)
                     toks == TemplateOutput(f.tmpl, f.name, f.v)
                 IN /\ sink'[p] = SinkAfterWrite(sink[p], w, toks)
                    /\ w.tgt > 0 => stack'[p][w.tgt].out = stack[p][w.tgt].out \o toks
                    /\ stack'[p][d].raised = TemplateError(f.tmpl, f.name, f.v)]_vars

\* outside debug mode an Execute holds the tree Load returned to it, and a
\* Reset has cleared the slot since
C20_Witness ==
    /\ ~DebugMode
    /\ tmpl = ValueStore(Nil)
    /\ \E p \in Procs : At(p, "ExecuteTemplate") /\ IsTree(Top(p).tmpl)

====
